---- MODULE Spec2Model ----
(***************************************************************************)
(* Model of the UpdateCheck command (source/main/commands/update-check.js). *)
(*                                                                         *)
(* One UpdateCheck instance with its field _response; run() starts         *)
(* _check(), which issues one request with got and suspends at the await.  *)
(* When got settles, the rest of _check (and _parseResponse) runs to       *)
(* completion in one step of the event loop; the then/catch callback of    *)
(* run() is a later step.                                                  *)
(***************************************************************************)
EXTENDS Integers, Sequences, FiniteSets, TLC

\* Number of run() invocations a behaviour contains.
MaxRuns == 2
\* Longest release list a response body contains.
MaxListLen == 2

Invocations == 1..MaxRuns

(***************************************************************************)
(* Version strings.  A tag or version string is a record: an optional "v"  *)
(* prefix, whether the rest is a well-formed semantic version, the three   *)
(* numbers, and the prerelease identifiers.  A prerelease identifier is    *)
(* numeric or alphanumeric.                                                *)
(***************************************************************************)
Num(k) == [num |-> TRUE, n |-> k, s |-> ""]
Alpha(t) == [num |-> FALSE, n |-> 0, s |-> t]

\* ASCII order of the alphanumeric identifiers in use.
AsciiRank == [alpha |-> 1, beta |-> 2, rc |-> 3]

VerString(p, ma, mi, pa, pre) ==
  [prefix |-> p, wellFormed |-> TRUE, major |-> ma, minor |-> mi, patch |-> pa, pre |-> pre]

\* A tag that is not a semantic version (e.g. "nightly").
BadTag == [prefix |-> "", wellFormed |-> FALSE, major |-> 0, minor |-> 0, patch |-> 0, pre |-> <<>>]

\* new SemVer(s): the parsed version, the "v" prefix dropped.
SemVerOf(s) == [major |-> s.major, minor |-> s.minor, patch |-> s.patch, pre |-> s.pre]

Sign(a, b) == IF a < b THEN -1 ELSE IF a > b THEN 1 ELSE 0

\* semver's compareIdentifiers.
CompareIdentifiers(a, b) ==
  IF a.num /\ b.num THEN Sign(a.n, b.n)
  ELSE IF a = b THEN 0
  ELSE IF a.num /\ ~b.num THEN -1
  ELSE IF b.num /\ ~a.num THEN 1
  ELSE Sign(AsciiRank[a.s], AsciiRank[b.s])

\* SemVer.compareMain
CompareMain(a, b) ==
  IF CompareIdentifiers(Num(a.major), Num(b.major)) # 0
    THEN CompareIdentifiers(Num(a.major), Num(b.major))
  ELSE IF CompareIdentifiers(Num(a.minor), Num(b.minor)) # 0
    THEN CompareIdentifiers(Num(a.minor), Num(b.minor))
  ELSE CompareIdentifiers(Num(a.patch), Num(b.patch))

RECURSIVE ComparePreFrom(_, _, _)
ComparePreFrom(p, q, i) ==
  IF i > Len(p) /\ i > Len(q) THEN 0
  ELSE IF i > Len(q) THEN 1
  ELSE IF i > Len(p) THEN -1
  ELSE IF p[i] = q[i] THEN ComparePreFrom(p, q, i + 1)
  ELSE CompareIdentifiers(p[i], q[i])

\* SemVer.comparePre
ComparePre(a, b) ==
  IF Len(a.pre) > 0 /\ Len(b.pre) = 0 THEN -1
  ELSE IF Len(a.pre) = 0 /\ Len(b.pre) > 0 THEN 1
  ELSE IF Len(a.pre) = 0 /\ Len(b.pre) = 0 THEN 0
  ELSE ComparePreFrom(a.pre, b.pre, 1)

SemverCompare(a, b) ==
  IF CompareMain(a, b) # 0 THEN CompareMain(a, b) ELSE ComparePre(a, b)

\* semver.lt(a, b) for two well-formed version strings.
SemverLt(a, b) == SemverCompare(SemVerOf(a), SemVerOf(b)) < 0

(***************************************************************************)
(* Release notes and their rendering.                                      *)
(***************************************************************************)
\* 'headerLevelStart' given to the showdown converter.
HeaderLevelStart == 2

\* Markdown blocks: a heading of some level, a link, a paragraph.
MdHeading(l, t) == [t |-> "heading", level |-> l, text |-> t]
MdLink(t) == [t |-> "link", level |-> 0, text |-> t]
MdPara(t) == [t |-> "para", level |-> 0, text |-> t]

\* conv.makeHtml followed by the rewriting of every <a> element.
RenderBlock(b) ==
  IF b.t = "heading"
    THEN [el |-> "h", level |-> b.level + HeaderLevelStart - 1, text |-> b.text,
          onclick |-> "", target |-> ""]
  ELSE IF b.t = "link"
    THEN [el |-> "a", level |-> 0, text |-> b.text,
          onclick |-> "openExternal", target |-> "_blank"]
  ELSE [el |-> "p", level |-> 0, text |-> b.text, onclick |-> "", target |-> ""]

Changelog(md) == [k \in 1..Len(md) |-> RenderBlock(md[k])]

(***************************************************************************)
(* Release records and response bodies.  A body is a sequence of tokens:   *)
(* whitespace, the JSON punctuation of a one-level document, serialized    *)
(* objects, null, and text that is not JSON.                               *)
(***************************************************************************)
Release(tag, pre, draft, md, url) ==
  [tag_name |-> tag, prerelease |-> pre, draft |-> draft, body |-> md, html_url |-> url]

NoRelease == Release(BadTag, FALSE, FALSE, <<>>, "")

Tok(t) == [t |-> t, obj |-> NoRelease]
ObjTok(r) == [t |-> "release", obj |-> r]

IsWhitespace(tok) == tok.t \in {"space", "newline"}

RECURSIVE TrimStart(_)
TrimStart(s) ==
  IF s = <<>> THEN <<>>
  ELSE IF IsWhitespace(Head(s)) THEN TrimStart(Tail(s))
  ELSE s

RECURSIVE TrimEnd(_)
TrimEnd(s) ==
  IF s = <<>> THEN <<>>
  ELSE IF IsWhitespace(s[Len(s)]) THEN TrimEnd(SubSeq(s, 1, Len(s) - 1))
  ELSE s

\* A comparison with the empty string that trims nothing.
TrimNothing(s) == s

\* String.prototype.trim
Trim(s) == TrimEnd(TrimStart(s))

NotWhitespace(tok) == ~IsWhitespace(tok)

Scalars == {"release", "object", "null"}

\* The elements between the brackets: nothing, or values separated by commas.
IsElementList(m) ==
  \/ m = <<>>
  \/ /\ Len(m) % 2 = 1
     /\ \A k \in 1..Len(m) :
          IF k % 2 = 1 THEN m[k].t \in Scalars ELSE m[k].t = "comma"

ElementsOf(m) == [k \in 1..((Len(m) + 1) \div 2) |-> m[2 * k - 1]]

JsonValue(kind, items) == [ok |-> TRUE, kind |-> kind, items |-> items]
JsonSyntaxError == [ok |-> FALSE, kind |-> "", items |-> <<>>]

\* JSON.parse of a body: whitespace between tokens is insignificant.
JSONParse(s) ==
  LET t == SelectSeq(s, NotWhitespace)
  IN  IF Len(t) = 1 /\ t[1].t = "null" THEN JsonValue("null", <<>>)
      ELSE IF Len(t) = 1 /\ t[1].t \in {"release", "object"} THEN JsonValue("object", <<>>)
      ELSE IF /\ Len(t) >= 2
              /\ t[1].t = "lbracket"
              /\ t[Len(t)].t = "rbracket"
              /\ IsElementList(SubSeq(t, 2, Len(t) - 1))
        THEN JsonValue("array", ElementsOf(SubSeq(t, 2, Len(t) - 1)))
      ELSE JsonSyntaxError

(***************************************************************************)
(* Values of the field _response: a string (a body) or parsed JSON.        *)
(***************************************************************************)
StringValue(s) == [type |-> "string", str |-> s, json |-> JsonSyntaxError]
ParsedValue(v) == [type |-> "json", str |-> <<>>, json |-> v]

(***************************************************************************)
(* Errors, decisions and the outcome of _check().                          *)
(***************************************************************************)
\* new Error(trans(key, args)) and the errors the runtime throws: the
\* message is the key (or text) followed by what is substituted into it.
Error(name, key, args) == [name |-> name, message |-> <<key>> \o args]
NoError == [name |-> "", message |-> <<>>]

NoDecision ==
  [newVer |-> BadTag, curVer |-> BadTag, changelog |-> <<>>, releaseURL |-> "",
   isBeta |-> FALSE, downloadURL |-> ""]

Resolved(d) == [ok |-> TRUE, value |-> d, error |-> NoError]
Thrown(e) == [ok |-> FALSE, value |-> NoDecision, error |-> e]

(***************************************************************************)
(* _parseResponse                                                          *)
(***************************************************************************)
\* this._response[0] of a parsed value other than null: an element of the
\* array, or undefined (an empty array, an object).
First(v) ==
  IF v.kind = "array" /\ Len(v.items) > 0 THEN v.items[1] ELSE Tok("undefined")

\* Reading a property of undefined or null throws.
HasProperties(first) == first.t \in {"release", "object"}

\* The fields of an element; an object that is no release record has none
\* of them (undefined: falsy, and no version).
Fields(first) == IF first.t = "release" THEN first.obj ELSE NoRelease

\* The prerelease flag taken without its negation.
AcceptReleaseNotNegated(checkForBeta, rel) ==
  IF checkForBeta THEN TRUE ELSE rel.prerelease

\* let acceptRelease = checkForBeta; if (!acceptRelease) acceptRelease = !prerelease
AcceptRelease(checkForBeta, rel) ==
  IF checkForBeta THEN TRUE ELSE ~rel.prerelease

\* The condition without its draft test.
IsUpdateIgnoringDraft(cur, rel, acceptRelease) ==
  SemverLt(cur, rel.tag_name) /\ acceptRelease

\* semver.lt(CUR_VER, tag_name) && acceptRelease && !draft
IsUpdate(cur, rel, acceptRelease) ==
  SemverLt(cur, rel.tag_name) /\ acceptRelease /\ ~rel.draft

\* The returned object with isBeta read from the wrong field.
DecisionBetaFromDraft(cur, rel) ==
  [newVer |-> rel.tag_name,
   curVer |-> cur,
   changelog |-> Changelog(rel.body),
   releaseURL |-> rel.html_url,
   isBeta |-> rel.draft,
   downloadURL |-> ""]

\* The object _parseResponse returns.
Decision(cur, rel) ==
  [newVer |-> rel.tag_name,
   curVer |-> cur,
   changelog |-> Changelog(rel.body),
   releaseURL |-> rel.html_url,
   isBeta |-> rel.prerelease,
   downloadURL |-> ""]

\* The statements after JSON.parse, on the parsed value v.
Evaluate(v, cur, checkForBeta) ==
  LET first == First(v)
      rel == Fields(first)
  IN  IF v.kind = "null"
        THEN Thrown(Error("TypeError", "Cannot read property '0' of null", <<>>))
      ELSE IF ~checkForBeta /\ ~HasProperties(first)
        THEN Thrown(Error("TypeError", "Cannot read property 'prerelease'", <<first.t>>))
      ELSE IF ~HasProperties(first)
        THEN Thrown(Error("TypeError", "Cannot read property 'tag_name'", <<first.t>>))
      ELSE IF ~rel.tag_name.wellFormed
        THEN Thrown(Error("TypeError", "Invalid Version", <<>>))
      ELSE IF IsUpdate(cur, rel, AcceptRelease(checkForBeta, rel))
        THEN Resolved(Decision(cur, rel))
      ELSE Thrown(Error("Error", "dialog.update.no_update", <<>>))

\* _parseResponse with this._response = resp (a string): what it returns or
\* throws, and the value it leaves in this._response.
ParseResponse(resp, cur, checkForBeta) ==
  IF resp.type # "string"
    THEN [outcome |-> Thrown(Error("TypeError", "this._response.trim is not a function", <<>>)),
          response |-> resp]
  ELSE IF Trim(resp.str) = <<>>
    THEN [outcome |-> Thrown(Error("Error", "dialog.update.no_data", <<>>)),
          response |-> resp]
  ELSE IF ~JSONParse(resp.str).ok
    THEN [outcome |-> Thrown(Error("SyntaxError", "Unexpected token", <<>>)),
          response |-> resp]
  ELSE [outcome |-> Evaluate(JSONParse(resp.str), cur, checkForBeta),
        response |-> ParsedValue(JSONParse(resp.str))]

(***************************************************************************)
(* _check: the catch block.  A rejection of got carries a statusCode (an   *)
(* HTTP error) or none, a code and a message.                              *)
(***************************************************************************)
GotError(hasStatus, statusCode, code, message) ==
  [hasStatus |-> hasStatus, statusCode |-> statusCode, code |-> code, message |-> message]

\* error.statusCode >= n is false when statusCode is undefined.
StatusAtLeast(error, n) == error.hasStatus /\ error.statusCode >= n

\* The catch block with the client test before the server test.
ClassifyClientFirst(error) ==
  IF StatusAtLeast(error, 400)
    THEN Error("Error", "dialog.update.client_error", <<ToString(error.statusCode)>>)
  ELSE IF StatusAtLeast(error, 500)
    THEN Error("Error", "dialog.update.server_error", <<ToString(error.statusCode)>>)
  ELSE IF StatusAtLeast(error, 300)
    THEN Error("Error", "dialog.update.redirect_error", <<ToString(error.statusCode)>>)
  ELSE IF error.code = "ENOTFOUND"
    THEN Error("Error", "dialog.update.connection_error", <<>>)
  ELSE Error("Error", "Could not check for updates.", <<error.code, error.message>>)

Classify(error) ==
  IF StatusAtLeast(error, 500)
    THEN Error("Error", "dialog.update.server_error", <<ToString(error.statusCode)>>)
  ELSE IF StatusAtLeast(error, 400)
    THEN Error("Error", "dialog.update.client_error", <<ToString(error.statusCode)>>)
  ELSE IF StatusAtLeast(error, 300)
    THEN Error("Error", "dialog.update.redirect_error", <<ToString(error.statusCode)>>)
  ELSE IF error.code = "ENOTFOUND"
    THEN Error("Error", "dialog.update.connection_error", <<>>)
  ELSE Error("Error", "Could not check for updates.", <<error.code, error.message>>)

(***************************************************************************)
(* The inputs: versions of the running application, release feeds, and     *)
(* what the request ends with.                                             *)
(***************************************************************************)
Mains == {<<1, 0, 0>>, <<1, 0, 1>>, <<1, 1, 0>>, <<2, 0, 0>>}
Pres == {<<>>, <<Alpha("beta")>>, <<Alpha("beta"), Num(1)>>, <<Num(1)>>, <<Alpha("rc")>>}

Tags ==
  {VerString(p, m[1], m[2], m[3], pre) : p \in {"", "v"}, m \in Mains, pre \in Pres}
    \cup {BadTag}

\* package.json versions of the running build.
CurVersions == {VerString("", 1, 0, 0, <<>>), VerString("", 1, 1, 0, <<>>)}

MoreCurVersions ==
  CurVersions \cup
    {VerString("", 1, 0, 1, <<Alpha("beta"), Num(1)>>), VerString("", 2, 0, 0, <<Alpha("beta")>>),
     VerString("", 2, 0, 0, <<>>)}

Notes ==
  {<<<<MdHeading(1, "Notes"), MdLink("issue")>>, "https://x/release">>,
   <<<<MdPara("fixes")>>, "https://x/other">>}

Releases ==
  {Release(t, pre, d, n[1], n[2]) : t \in Tags, pre \in BOOLEAN, d \in BOOLEAN, n \in Notes}

\* Older entries of a feed, after the first.
TailReleases ==
  {Release(VerString("v", 9, 0, 0, <<>>), FALSE, FALSE, <<MdPara("later")>>, "https://x/9"),
   Release(VerString("v", 0, 9, 0, <<>>), TRUE, TRUE, <<>>, "https://x/0")}

RECURSIVE SeqsUpTo(_, _)
SeqsUpTo(S, n) ==
  IF n = 0 THEN {<<>>}
  ELSE SeqsUpTo(S, n - 1) \cup {Append(q, x) : q \in SeqsUpTo(S, n - 1), x \in S}

\* The feeds whose first entry is r.
FeedsOf(r) == {<<ObjTok(r)>> \o [k \in 1..Len(q) |-> ObjTok(q[k])] : q \in SeqsUpTo(TailReleases, MaxListLen - 1)}

RECURSIVE Joined(_, _)
Joined(items, sep) ==
  IF items = <<>> THEN <<>>
  ELSE IF Len(items) = 1 THEN items
  ELSE <<Head(items)>> \o sep \o Joined(Tail(items), sep)

\* The body the server sends for a list of values, compact or indented.
Serialized(items, indented) ==
  IF indented
    THEN <<Tok("lbracket"), Tok("newline")>>
           \o Joined(items, <<Tok("comma"), Tok("newline"), Tok("space")>>)
           \o <<Tok("newline"), Tok("rbracket"), Tok("newline")>>
    ELSE <<Tok("lbracket")>> \o Joined(items, <<Tok("comma")>>) \o <<Tok("rbracket")>>

BlankBodies == {<<>>, <<Tok("space")>>, <<Tok("newline"), Tok("space"), Tok("newline")>>}

MalformedBodies ==
  {<<Tok("junk")>>, <<Tok("lbracket")>>, <<Tok("space"), Tok("junk"), Tok("newline")>>,
   <<Tok("lbracket"), Tok("null"), Tok("comma"), Tok("rbracket")>>}

\* Valid JSON that is no list of release records.
OtherBodies ==
  {<<Tok("null")>>, <<Tok("object")>>, <<Tok("space"), Tok("object")>>,
   Serialized(<<Tok("null")>>, FALSE), Serialized(<<Tok("object")>>, FALSE)}

ListBodies(rels) ==
  {Serialized(f, ind) : f \in (UNION {FeedsOf(r) : r \in rels}) \cup {<<>>}, ind \in BOOLEAN}

AllBodies == BlankBodies \cup MalformedBodies \cup OtherBodies \cup ListBodies(Releases)

StatusCodes == {100, 299, 300, 301, 399, 400, 404, 499, 500, 503}

AllErrors ==
  {GotError(TRUE, c, "", "Response code") : c \in StatusCodes}
    \cup {GotError(TRUE, 404, "ENOTFOUND", "Response code")}
    \cup {GotError(FALSE, 0, c, "request failed") : c \in {"ENOTFOUND", "ETIMEDOUT", "ECONNREFUSED"}}

\* A few feeds and failures of each kind, for behaviours of several checks.
SomeNotes == <<MdHeading(1, "Notes"), MdLink("issue")>>

SomeFeeds ==
  {<<>>,
   <<ObjTok(Release(VerString("", 2, 0, 0, <<Alpha("beta")>>), TRUE, FALSE, SomeNotes, "https://x/beta"))>>,
   <<ObjTok(Release(VerString("", 2, 0, 0, <<>>), FALSE, TRUE, SomeNotes, "https://x/draft"))>>}

SomeBodies ==
  {<<Tok("space")>>, <<Tok("junk")>>}
    \cup {Serialized(f, FALSE) : f \in SomeFeeds}
    \cup {Serialized(<<ObjTok(Release(VerString("v", 1, 1, 0, <<>>), FALSE, FALSE, SomeNotes, "https://x/1.1.0")),
                       ObjTok(Release(VerString("v", 9, 0, 0, <<>>), FALSE, FALSE, <<>>, "https://x/9"))>>, TRUE)}

SomeErrors ==
  {GotError(TRUE, 503, "", "Response code"), GotError(FALSE, 0, "ENOTFOUND", "request failed")}

\* What the await of got ends with: a response with a body, or an error.
GotResponse(body) == [resolved |-> TRUE, body |-> body, error |-> GotError(FALSE, 0, "", "")]
GotFailure(error) == [resolved |-> FALSE, body |-> <<>>, error |-> error]
Pending == [resolved |-> FALSE, body |-> <<>>, error |-> GotError(FALSE, 0, "pending", "")]

(***************************************************************************)
(* The state.                                                              *)
(***************************************************************************)
VARIABLES
  response,      \* this._response
  CUR_VER,       \* the version of the running application
  pc,            \* where each invocation of run() is
  fetched,       \* what got gave each invocation
  checkForBeta,  \* the setting each invocation read
  promise,       \* what each invocation's _check() settled with
  requests,      \* the number of requests issued
  runs,          \* the number of invocations of run()
  ipcSent,       \* the 'update-available' messages each invocation sent
  notified       \* the messages each invocation gave global.ipc.notify

vars ==
  <<response, CUR_VER, pc, fetched, checkForBeta, promise, requests, runs, ipcSent, notified>>

NotSettled == Thrown(NoError)

InitWith(versions) ==
  /\ response = StringValue(<<>>)
  /\ CUR_VER \in versions
  /\ pc = [i \in Invocations |-> "idle"]
  /\ fetched = [i \in Invocations |-> Pending]
  /\ checkForBeta = [i \in Invocations |-> FALSE]
  /\ promise = [i \in Invocations |-> NotSettled]
  /\ requests = 0
  /\ runs = 0
  /\ ipcSent = [i \in Invocations |-> <<>>]
  /\ notified = [i \in Invocations |-> <<>>]

Init == InitWith(CurVersions)

\* run() that starts no request while another check is in flight.
RunUnlessInFlight(i) ==
  /\ runs < MaxRuns
  /\ i = runs + 1
  /\ pc[i] = "idle"
  /\ runs' = runs + 1
  /\ requests' = IF \E j \in Invocations : pc[j] = "awaiting" THEN requests ELSE requests + 1
  /\ pc' = [pc EXCEPT ![i] = "awaiting"]
  /\ UNCHANGED <<response, CUR_VER, fetched, checkForBeta, promise, ipcSent, notified>>

\* run() up to the await: _check() calls got once and suspends.
Run(i) ==
  /\ runs < MaxRuns
  /\ i = runs + 1
  /\ pc[i] = "idle"
  /\ runs' = runs + 1
  /\ requests' = requests + 1
  /\ pc' = [pc EXCEPT ![i] = "awaiting"]
  /\ UNCHANGED <<response, CUR_VER, fetched, checkForBeta, promise, ipcSent, notified>>

\* The body kept from the first response the instance received.
BodyAssignedOnce(old, body) ==
  IF old = StringValue(<<>>) THEN StringValue(body) ELSE old

\* The field read before the assignment of the new body.
BodyNotYetAssigned(old, body) == old

\* this._response = await got(...); this._response = this._response.body
BodyAssigned(old, body) == StringValue(body)

\* got resolves: the assignments and _parseResponse, in one step.
GotResolves(i, body, beta) ==
  /\ pc[i] = "awaiting"
  /\ LET r == ParseResponse(BodyAssigned(response, body), CUR_VER, beta)
     IN  /\ response' = r.response
         /\ promise' = [promise EXCEPT ![i] = r.outcome]
         \* the setting is read once JSON.parse has returned
         /\ checkForBeta' = IF r.response.type = "json"
                              THEN [checkForBeta EXCEPT ![i] = beta]
                              ELSE checkForBeta
  /\ fetched' = [fetched EXCEPT ![i] = GotResponse(body)]
  /\ pc' = [pc EXCEPT ![i] = "settled"]
  /\ UNCHANGED <<CUR_VER, requests, runs, ipcSent, notified>>

\* got rejects: the catch block throws; _parseResponse is not reached.
GotRejects(i, error) ==
  /\ pc[i] = "awaiting"
  /\ promise' = [promise EXCEPT ![i] = Thrown(Classify(error))]
  /\ fetched' = [fetched EXCEPT ![i] = GotFailure(error)]
  /\ pc' = [pc EXCEPT ![i] = "settled"]
  /\ UNCHANGED <<response, CUR_VER, checkForBeta, requests, runs, ipcSent, notified>>

\* .then((res) => this._app.ipc.send('update-available', res))
Then(i) ==
  /\ pc[i] = "settled"
  /\ promise[i].ok
  /\ ipcSent' = [ipcSent EXCEPT ![i] = Append(@, promise[i].value)]
  /\ pc' = [pc EXCEPT ![i] = "done"]
  /\ UNCHANGED <<response, CUR_VER, fetched, checkForBeta, promise, requests, runs, notified>>

\* A catch callback that reports nothing.
CatchSilently(i) ==
  /\ pc[i] = "settled"
  /\ ~promise[i].ok
  /\ pc' = [pc EXCEPT ![i] = "done"]
  /\ UNCHANGED <<response, CUR_VER, fetched, checkForBeta, promise, requests, runs, ipcSent, notified>>

\* .catch((e) => global.ipc.notify(e.message))
Catch(i) ==
  /\ pc[i] = "settled"
  /\ ~promise[i].ok
  /\ notified' = [notified EXCEPT ![i] = Append(@, promise[i].error.message)]
  /\ pc' = [pc EXCEPT ![i] = "done"]
  /\ UNCHANGED <<response, CUR_VER, fetched, checkForBeta, promise, requests, runs, ipcSent>>

\* Several checks, overlapping or not.
Next ==
  \E i \in Invocations :
    \/ Run(i)
    \/ \E body \in SomeBodies, beta \in BOOLEAN : GotResolves(i, body, beta)
    \/ \E error \in SomeErrors : GotRejects(i, error)
    \/ Then(i)
    \/ Catch(i)

Spec == Init /\ [][Next]_vars

\* The callbacks of a settled promise are run by the event loop.
FairSpec == Spec /\ \A i \in Invocations : WF_vars(Then(i)) /\ WF_vars(Catch(i))

\* One check, over all the inputs.
CheckNext ==
  \/ Run(1)
  \/ \E body \in AllBodies, beta \in BOOLEAN : GotResolves(1, body, beta)
  \/ \E error \in AllErrors : GotRejects(1, error)
  \/ Then(1)
  \/ Catch(1)

CheckInit == InitWith(MoreCurVersions)

CheckSpec == CheckInit /\ [][CheckNext]_vars

(***************************************************************************)
(* Properties.                                                             *)
(***************************************************************************)
Settled(i) == pc[i] \in {"settled", "done"}

Fetched(i) == Settled(i) /\ fetched[i].resolved
Failed(i) == Settled(i) /\ ~fetched[i].resolved

IsBlank(body) == \A k \in 1..Len(body) : body[k].t \in {"space", "newline"}

\* The body is a list of release records, of any length.
IsReleaseList(body) ==
  /\ JSONParse(body).ok
  /\ JSONParse(body).kind = "array"
  /\ \A k \in 1..Len(JSONParse(body).items) : JSONParse(body).items[k].t = "release"

\* The first release record of a list of release records that has one.
HasFirstRecord(body) == IsReleaseList(body) /\ Len(JSONParse(body).items) > 0
FirstRecord(body) == JSONParse(body).items[1].obj

Newer(rel, cur) == rel.tag_name.wellFormed /\ SemverLt(cur, rel.tag_name)

Message(key) == <<key>>

\* C1: a decision exists (a settled check succeeded, or 'update-available'
\* was sent) only if the first release record of the response this check
\* fetched is newer than the running version, is not a draft, and is not a
\* prerelease unless the check read checkForBeta = true.
C1_DecisionOnlyForAcceptableRelease ==
  \A i \in Invocations :
    ((Settled(i) /\ promise[i].ok) \/ ipcSent[i] # <<>>) =>
      /\ fetched[i].resolved
      /\ HasFirstRecord(fetched[i].body)
      /\ Newer(FirstRecord(fetched[i].body), CUR_VER)
      /\ ~FirstRecord(fetched[i].body).draft
      /\ (FirstRecord(fetched[i].body).prerelease => checkForBeta[i])

\* A second check sends a decision for a prerelease after a first check failed.
C1_Witness ==
  /\ pc[1] = "done" /\ ~promise[1].ok
  /\ pc[2] = "done" /\ Len(ipcSent[2]) = 1
  /\ FirstRecord(fetched[2].body).prerelease
  /\ checkForBeta[2]

\* The first entry of the fetched feed is a release that is neither a draft
\* nor a prerelease and whose tag is greater than the running version.
StableNewer(i) ==
  /\ Fetched(i)
  /\ HasFirstRecord(fetched[i].body)
  /\ Newer(FirstRecord(fetched[i].body), CUR_VER)
  /\ ~FirstRecord(fetched[i].body).draft
  /\ ~FirstRecord(fetched[i].body).prerelease

\* C2: for versions a < b and either value of checkForBeta, a check with
\* current version a whose fetched feed starts with a release b that is
\* neither draft nor prerelease succeeds, and its decision has newVer = b,
\* curVer = a, releaseURL = the entry's html_url, isBeta = false and
\* downloadURL = "".
C2_NewerStableReleaseIsOffered ==
  StableNewer(1) =>
    /\ promise[1].ok
    /\ promise[1].value.newVer = FirstRecord(fetched[1].body).tag_name
    /\ promise[1].value.curVer = CUR_VER
    /\ promise[1].value.releaseURL = FirstRecord(fetched[1].body).html_url
    /\ promise[1].value.isBeta = FALSE
    /\ promise[1].value.downloadURL = ""
    /\ (pc[1] = "done" => ipcSent[1] = <<promise[1].value>> /\ notified[1] = <<>>)

\* The decision was sent, with checkForBeta = false, for a "v"-prefixed tag
\* that differs from the running version only in the patch number.
C2_Witness ==
  /\ StableNewer(1)
  /\ pc[1] = "done"
  /\ ~checkForBeta[1]
  /\ FirstRecord(fetched[1].body).tag_name = VerString("v", 1, 0, 1, <<>>)
  /\ CUR_VER = VerString("", 1, 0, 0, <<>>)
  /\ Len(ipcSent[1]) = 1

\* No update is acceptable in a list of release records: it is empty, or
\* its first entry is a draft, a prerelease that is not wanted, or not newer.
NoAcceptableUpdate(body, cur, beta) ==
  /\ IsReleaseList(body)
  /\ \/ Len(JSONParse(body).items) = 0
     \/ FirstRecord(body).draft
     \/ (FirstRecord(body).prerelease /\ ~beta)
     \/ ~Newer(FirstRecord(body), cur)

\* C3: every fetched non-blank body that is a list of release records (of
\* any length) with no acceptable update makes the check fail with
\* dialog.update.no_update and no other error.
C3_NoUpdateError ==
  (Fetched(1) /\ NoAcceptableUpdate(fetched[1].body, CUR_VER, checkForBeta[1])) =>
    /\ ~promise[1].ok
    /\ promise[1].error.message = Message("dialog.update.no_update")

\* The first entry of the fetched feed is a prerelease newer than the
\* running version, and the check read checkForBeta = true.
WantedBeta(i) ==
  /\ Fetched(i)
  /\ HasFirstRecord(fetched[i].body)
  /\ FirstRecord(fetched[i].body).prerelease
  /\ Newer(FirstRecord(fetched[i].body), CUR_VER)
  /\ checkForBeta[i]

\* C4 as stated: every feed whose first entry is a prerelease with a tag
\* greater than the current version gives, with checkForBeta = true, a
\* decision with isBeta = true.
C4_AnyPrereleaseIsOffered ==
  WantedBeta(1) => (promise[1].ok /\ promise[1].value.isBeta = TRUE)

\* C4 amended: every feed whose first entry is a prerelease that is not a
\* draft, with a tag greater than the current version, gives, with
\* checkForBeta = true, a decision with isBeta = true.
C4_PublishedPrereleaseIsOffered ==
  (WantedBeta(1) /\ ~FirstRecord(fetched[1].body).draft) =>
    (promise[1].ok /\ promise[1].value.isBeta = TRUE)

C4_Witness ==
  /\ WantedBeta(1)
  /\ ~FirstRecord(fetched[1].body).draft
  /\ pc[1] = "done"
  /\ Len(ipcSent[1]) = 1
  /\ ipcSent[1][1].isBeta

\* The error kind of a failed request, by its status code and code.
KindOf(error) ==
  IF error.hasStatus /\ error.statusCode >= 500 THEN "dialog.update.server_error"
  ELSE IF error.hasStatus /\ error.statusCode \in 400..499 THEN "dialog.update.client_error"
  ELSE IF error.hasStatus /\ error.statusCode \in 300..399 THEN "dialog.update.redirect_error"
  ELSE IF error.code = "ENOTFOUND" THEN "dialog.update.connection_error"
  ELSE "Could not check for updates."

StatusKinds ==
  {"dialog.update.server_error", "dialog.update.client_error", "dialog.update.redirect_error"}

\* C5: a failed request gives exactly the error kind its status code and
\* code select, in the order server (>= 500), client (400..499), redirect
\* (300..399), connection (ENOTFOUND), unknown; the first three messages
\* carry the status code; no further request is made, the response is not
\* parsed and no decision is produced.
C5_TransportErrorKinds ==
  Failed(1) =>
    /\ ~promise[1].ok
    /\ promise[1].error.message[1] = KindOf(fetched[1].error)
    /\ (KindOf(fetched[1].error) \in StatusKinds =>
          promise[1].error.message = <<KindOf(fetched[1].error), ToString(fetched[1].error.statusCode)>>)
    /\ (KindOf(fetched[1].error) = "dialog.update.connection_error" =>
          Len(promise[1].error.message) = 1)
    /\ requests = 1
    /\ response = StringValue(<<>>)
    /\ ipcSent[1] = <<>>
    /\ (pc[1] = "done" => notified[1] = <<promise[1].error.message>>)

\* A 404 whose error also has the code ENOTFOUND was reported as a client error.
C5_Witness ==
  /\ Failed(1)
  /\ pc[1] = "done"
  /\ fetched[1].error.statusCode = 404
  /\ fetched[1].error.code = "ENOTFOUND"
  /\ notified[1] = <<<<"dialog.update.client_error", "404">>>>

\* C6: a fetched body that is empty or only whitespace fails with
\* dialog.update.no_data and is never parsed (_response keeps the string); a
\* non-blank body that is not valid JSON fails with a SyntaxError whose
\* message is neither no_data nor no_update; neither gives a decision.
C6_BlankAndMalformedBodies ==
  Fetched(1) =>
    /\ (IsBlank(fetched[1].body) =>
          /\ ~promise[1].ok
          /\ promise[1].error.message = Message("dialog.update.no_data")
          /\ response = StringValue(fetched[1].body)
          /\ ipcSent[1] = <<>>)
    /\ ((~IsBlank(fetched[1].body) /\ ~JSONParse(fetched[1].body).ok) =>
          /\ ~promise[1].ok
          /\ promise[1].error.name = "SyntaxError"
          /\ promise[1].error.message \notin
               {Message("dialog.update.no_data"), Message("dialog.update.no_update")}
          /\ response = StringValue(fetched[1].body)
          /\ ipcSent[1] = <<>>)

\* A body of three whitespace characters was reported as no data.
C6_Witness ==
  /\ Fetched(1)
  /\ pc[1] = "done"
  /\ Len(fetched[1].body) = 3
  /\ IsBlank(fetched[1].body)
  /\ notified[1] = <<Message("dialog.update.no_data")>>

\* The events of a finished invocation: one, of the kind of its outcome.
OneOutcomeEvent(i) ==
  IF promise[i].ok
    THEN ipcSent[i] = <<promise[i].value>> /\ notified[i] = <<>>
    ELSE notified[i] = <<promise[i].error.message>> /\ ipcSent[i] = <<>>

\* C7: every invocation whose request completed eventually has produced
\* exactly one event: 'update-available' with the decision if the check
\* succeeded, a notification with the failure's message if it failed; before
\* that it has produced none, and never both.
C7_ExactlyOneOutcomeEvent ==
  /\ [](\A i \in Invocations :
          /\ Len(ipcSent[i]) + Len(notified[i]) <= 1
          /\ (pc[i] # "done" => ipcSent[i] = <<>> /\ notified[i] = <<>>)
          /\ (pc[i] = "done" => OneOutcomeEvent(i)))
  /\ \A i \in Invocations :
        (pc[i] = "settled") ~> (pc[i] = "done" /\ OneOutcomeEvent(i))

\* A check that failed with a TypeError (an empty list) was notified while
\* the other check sent its decision.
C7_Witness ==
  /\ pc[1] = "done" /\ promise[1].error.name = "TypeError" /\ Len(notified[1]) = 1
  /\ pc[2] = "done" /\ Len(ipcSent[2]) = 1

\* C8: two checks on the instance that got the same response and read the
\* same setting have equal outcomes, whatever the earlier check left in
\* _response.
C8_RepeatedCheckSameOutcome ==
  \A i, j \in Invocations :
    (Settled(i) /\ Settled(j) /\ fetched[i] = fetched[j] /\ checkForBeta[i] = checkForBeta[j]) =>
      /\ promise[i] = promise[j]
      /\ (pc[i] = "done" /\ pc[j] = "done" =>
            ipcSent[i] = ipcSent[j] /\ notified[i] = notified[j])

\* The second check ran after the first had finished and left the parsed
\* list in _response; both sent equal decisions.
C8_Witness ==
  /\ pc[1] = "done" /\ pc[2] = "done"
  /\ fetched[1] = fetched[2] /\ checkForBeta[1] = checkForBeta[2]
  /\ response.type = "json"
  /\ Len(ipcSent[1]) = 1 /\ ipcSent[1] = ipcSent[2]

\* The outcome of a check, from the response to its own request only.
OwnOutcome(i) ==
  IF fetched[i].resolved
    THEN ParseResponse(StringValue(fetched[i].body), CUR_VER, checkForBeta[i]).outcome
    ELSE Thrown(Classify(fetched[i].error))

\* C9: in every interleaving of overlapping invocations, each invocation's
\* outcome and event are those of the response to its own request.
C9_OutcomeFromOwnResponse ==
  \A i \in Invocations :
    Settled(i) =>
      /\ promise[i] = OwnOutcome(i)
      /\ \A k \in 1..Len(ipcSent[i]) : ipcSent[i][k] = OwnOutcome(i).value
      /\ \A k \in 1..Len(notified[i]) : notified[i][k] = OwnOutcome(i).error.message

\* Both requests were in flight together and the second response arrived
\* first: _response holds the first invocation's list although the second
\* invocation, which got a blank body, has already notified.
C9_Witness ==
  /\ pc[1] = "settled" /\ pc[2] = "done"
  /\ promise[1].ok
  /\ fetched[2].resolved /\ IsBlank(fetched[2].body)
  /\ response = ParsedValue(JSONParse(fetched[1].body))
  /\ notified[2] = <<Message("dialog.update.no_data")>>

\* C10: the number of requests issued equals the number of invocations of
\* run(), which is the number of invocations past their start: no retry
\* after a failure, no invocation rejected or merged while one is in flight.
C10_OneRequestPerInvocation ==
  /\ requests = runs
  /\ requests = Cardinality({i \in Invocations : pc[i] # "idle"})

\* A second invocation started while the first was in flight, after which
\* the first failed: still two requests.
C10_Witness ==
  /\ requests = 2
  /\ Failed(1)
  /\ pc[2] = "awaiting"

====
